---------------------------- MODULE Spec2Model ----------------------------
(***************************************************************************)
(* Model of lib/data/json.js (submissionToOData): the schema-driven,       *)
(* event-driven walker that turns one submission XML document into the     *)
(* rows of a requested table.                                              *)
(*                                                                         *)
(* JavaScript strings are sequences of one-character strings, so that      *)
(* join, startsWith, split and the number parsers are computed character   *)
(* by character.  JavaScript objects live in a heap (a sequence of         *)
(* key -> value maps) and are referred to by their index, so that the      *)
(* aliasing between dataStack, the arrays of the data tree and result is   *)
(* the aliasing of the code.                                               *)
(***************************************************************************)
EXTENDS Integers, Sequences, FiniteSets, TLC

(***************************************************************************)
(* Bounds of the model.                                                    *)
(***************************************************************************)
\* total number of frames on the traversal stacks (the root frame included)
MaxDepth == 5
\* number of row objects (bags) a conversion may create besides the root row
MaxRows == 4

(***************************************************************************)
(* JavaScript values.                                                      *)
(***************************************************************************)
NULL == [k |-> "null"]
NaN == [k |-> "NaN"]
\* a string value; v is its sequence of characters
Str(chars) == [k |-> "string", v |-> chars]
\* the number m / 10^e, with e minimal (m = 15, e = 1 is 1.5)
Num(m, e) == [k |-> "number", m |-> m, e |-> e]
\* a reference to the heap object number id
Ref(id) == [k |-> "ref", id |-> id]
\* an array of references
Arr(items) == [k |-> "array", v |-> items]
\* the object {type: 'Point', coordinates}
PointObj(coordinates) == [k |-> "object", type |-> <<"P", "o", "i", "n", "t">>, coordinates |-> coordinates]

EmptyObject == [key \in {} |-> NULL]

\* obj[key] = val
Put(obj, key, val) == [x \in (DOMAIN obj) \cup {key} |-> IF x = key THEN val ELSE obj[x]]

(***************************************************************************)
(* String helpers: Array.prototype.join, String.prototype.startsWith,      *)
(* Number to String.                                                       *)
(***************************************************************************)
RECURSIVE Join(_, _)
Join(strs, sep) ==
  IF Len(strs) = 0 THEN <<>>
  ELSE IF Len(strs) = 1 THEN strs[1]
  ELSE strs[1] \o sep \o Join(Tail(strs), sep)

StartsWith(s, prefix) ==
  /\ Len(prefix) <= Len(s)
  /\ SubSeq(s, 1, Len(prefix)) = prefix

DigitChars == <<"0", "1", "2", "3", "4", "5", "6", "7", "8", "9">>

IsDigit(c) == \E d \in 1..10 : DigitChars[d] = c

DigitVal(c) == (CHOOSE d \in 1..10 : DigitChars[d] = c) - 1

IsSpace(c) == c = " "

RECURSIVE NatToStr(_)
NatToStr(n) ==
  IF n < 10 THEN <<DigitChars[n + 1]>>
  ELSE NatToStr(n \div 10) \o <<DigitChars[(n % 10) + 1]>>

RECURSIVE Pow10(_)
Pow10(e) == IF e = 0 THEN 1 ELSE 10 * Pow10(e - 1)

RECURSIVE PadLeft(_, _)
PadLeft(s, n) == IF Len(s) >= n THEN s ELSE PadLeft(<<"0">> \o s, n)

\* Number.prototype.toString of a non-negative number
NumToStr(x) ==
  IF x.e = 0 THEN NatToStr(x.m)
  ELSE NatToStr(x.m \div Pow10(x.e)) \o <<".">> \o PadLeft(NatToStr(x.m % Pow10(x.e)), x.e)

\* `${v}` of a template literal
ToStr(v) ==
  CASE v.k = "string" -> v.v
    [] v.k = "number" -> NumToStr(v)
    [] v.k = "NaN" -> <<"N", "a", "N">>
    [] OTHER -> <<"n", "u", "l", "l">>

(***************************************************************************)
(* parseInt, parseFloat and String.prototype.split(/\s+/g).                *)
(***************************************************************************)
RECURSIVE TrimStart(_)
TrimStart(s) == IF Len(s) > 0 /\ IsSpace(s[1]) THEN TrimStart(Tail(s)) ELSE s

\* the longest prefix of s made of digits
RECURSIVE LeadingDigits(_)
LeadingDigits(s) ==
  IF Len(s) > 0 /\ IsDigit(s[1]) THEN <<s[1]>> \o LeadingDigits(Tail(s)) ELSE <<>>

RECURSIVE DigitsVal(_)
DigitsVal(ds) ==
  IF Len(ds) = 0 THEN 0 ELSE 10 * DigitsVal(SubSeq(ds, 1, Len(ds) - 1)) + DigitVal(ds[Len(ds)])

RECURSIVE StripTrailingZeros(_)
StripTrailingZeros(ds) ==
  IF Len(ds) > 0 /\ ds[Len(ds)] = "0" THEN StripTrailingZeros(SubSeq(ds, 1, Len(ds) - 1)) ELSE ds

\* parseInt(text): leading whitespace is skipped, the longest run of digits
\* is read, anything after it is ignored; NaN when there is no digit.
parseInt(text) ==
  LET ds == LeadingDigits(TrimStart(text))
  IN IF Len(ds) = 0 THEN NaN ELSE Num(DigitsVal(ds), 0)

\* parseFloat(text): leading whitespace is skipped, digits, then optionally
\* a point and digits are read, anything after is ignored; NaN when there is
\* no digit.
parseFloat(text) ==
  LET t == TrimStart(text)
      ip == LeadingDigits(t)
      rest == SubSeq(t, Len(ip) + 1, Len(t))
      fp == IF Len(rest) > 0 /\ rest[1] = "." THEN LeadingDigits(Tail(rest)) ELSE <<>>
      fs == StripTrailingZeros(fp)
  IN IF Len(ip) = 0 /\ Len(fp) = 0 THEN NaN
     ELSE Num(DigitsVal(ip \o fs), Len(fs))

\* text.split(/\s+/g): the pieces between maximal runs of whitespace; a
\* leading or trailing run leaves an empty first or last piece.
RECURSIVE SplitFrom(_, _, _)
SplitFrom(s, i, cur) ==
  IF i > Len(s) THEN <<cur>>
  ELSE IF IsSpace(s[i])
       THEN IF i > 1 /\ IsSpace(s[i - 1]) THEN SplitFrom(s, i + 1, cur)
            ELSE <<cur>> \o SplitFrom(s, i + 1, <<>>)
       ELSE SplitFrom(s, i + 1, Append(cur, s[i]))

SplitWhitespace(text) == SplitFrom(text, 1, <<>>)

(***************************************************************************)
(* Collaborators of json.js that live in other files of the repository     *)
(* (lib/util/util.js, lib/util/crypto.js, lib/util/xml.js).                *)
(***************************************************************************)
\* isBlank: null, undefined or the empty string
isBlank(x) == x = NULL \/ x = Str(<<>>)

\* shasum: a deterministic digest, taken as injective; the digest of s is
\* the string H[s]
shasum(s) == <<"H", "[">> \o s \o <<"]">>

\* stripNamespacesFromPath: 'prefix:local' becomes 'local'
RECURSIVE AfterColon(_)
AfterColon(s) ==
  IF Len(s) = 0 THEN <<>> ELSE IF s[1] = ":" THEN Tail(s) ELSE AfterColon(Tail(s))

stripNamespacesFromPath(fullname) ==
  IF \E i \in 1..Len(fullname) : fullname[i] = ":" THEN AfterColon(fullname) ELSE fullname

(***************************************************************************)
(* The helpers of json.js.                                                 *)
(***************************************************************************)
\* field.type; the root entry { name: 'Submissions', children } has none
TypeOf(field) == IF "type" \in DOMAIN field THEN field.type ELSE "undefined"

BranchOutside == -1
BranchAt == 0
BranchInside == 1

\* getBranchState without the equality test: a path that starts with the
\* table is taken to be at it
getBranchStatePrefixAt(fieldStack, table) ==
  LET impliedTableName == Join([i \in 1..Len(fieldStack) |-> fieldStack[i].name], <<".">>)
  IN IF StartsWith(impliedTableName, table) THEN BranchAt ELSE BranchOutside

\* compares fieldStack to a target tablename: out of (-1), at (0) or in (1)
getBranchState(fieldStack, table) ==
  LET impliedTableName == Join([i \in 1..Len(fieldStack) |-> fieldStack[i].name], <<".">>)
  IN IF impliedTableName = table THEN BranchAt
     ELSE IF StartsWith(impliedTableName, table) THEN BranchInside
     ELSE BranchOutside

\* ramda last: undefined (NULL here) on an empty list
ptr(stack) == IF Len(stack) = 0 THEN NULL ELSE stack[Len(stack)]

pushPtr(stack) == Append(stack, ptr(stack))

\* ramda zip: pairs, truncated to the shorter list
zip(xs, ys) ==
  [i \in 1..(IF Len(xs) < Len(ys) THEN Len(xs) ELSE Len(ys)) |-> <<xs[i], ys[i]>>]

\* hashId of the field names alone, without the iterations
hashIdNames(stack) ==
  shasum(Join([i \in 1..Len(stack) |-> stack[i][1].name], <<"%", "%">>))

\* given a stack of [ field, iteration ] pairs returns a hashid
hashId(stack) ==
  shasum(Join([i \in 1..Len(stack) |-> stack[i][1].name \o <<"#">> \o ToStr(stack[i][2])],
              <<"%", "%">>))

\* iterationStack[i], undefined (NULL here) past the end
IterationAt(iterationStack, i) == IF i <= Len(iterationStack) THEN iterationStack[i] ELSE NULL

\* navigationLinkStep without the case of a context of length 1: the first
\* step carries a hash like the others
navigationLinkStepHashed(fieldStack, iterationStack, i) ==
  LET contextStack == [j \in 1..i |-> <<fieldStack[j], IterationAt(iterationStack, j)>>]
  IN IF ~isBlank(IterationAt(iterationStack, i))
     THEN fieldStack[i].name \o <<"(", "'">> \o hashId(contextStack) \o <<"'", ")">>
     ELSE fieldStack[i].name

navigationLinkStep(fieldStack, iterationStack, i) ==
  LET contextStack == [j \in 1..i |-> <<fieldStack[j], IterationAt(iterationStack, j)>>]
  IN IF ~isBlank(IterationAt(iterationStack, i))
     THEN fieldStack[i].name \o <<"(", "'">>
          \o (IF i = 1 THEN ToStr(iterationStack[i]) ELSE hashId(contextStack))
          \o <<"'", ")">>
     ELSE fieldStack[i].name

\* generates a navigationlink with pk ids baked in
navigationLink(fieldStack, iterationStack) ==
  Join([i \in 1..Len(fieldStack) |-> navigationLinkStep(fieldStack, iterationStack, i)], <<"/">>)

(***************************************************************************)
(* Keys of the output rows.                                                *)
(***************************************************************************)
SubmissionsName == <<"S", "u", "b", "m", "i", "s", "s", "i", "o", "n", "s">>
IdKey == <<"_", "_", "i", "d">>
NavigationLinkSuffix ==
  <<"@", "o", "d", "a", "t", "a", ".", "n", "a", "v", "i", "g", "a", "t", "i", "o", "n",
    "L", "i", "n", "k">>
RootParentKey == <<"_", "_">> \o SubmissionsName \o <<"-", "i", "d">>

\* `${nsPtr}__${name}` when a namespace prefix is active, the name otherwise
TargetKey(nsPtr, name) == IF nsPtr = NULL THEN name ELSE nsPtr.v \o <<"_", "_">> \o name

(***************************************************************************)
(* The walker.  A walker w is the closure state of one submissionToOData   *)
(* call: table, submission, options, the four stacks, result,              *)
(* droppedWrapper, the heap of the objects it has created, the state of    *)
(* the promise it returned, and whether its parser still delivers events.  *)
(***************************************************************************)
NewWalker(heap0, fields, table, submission, options) ==
  [ table |-> table,
    submission |-> submission,
    options |-> options,
    heap |-> Append(heap0, (IdKey :> Str(submission.instanceId))),
    result |-> IF table = SubmissionsName THEN <<Ref(Len(heap0) + 1)>> ELSE <<>>,
    fieldStack |-> << [name |-> SubmissionsName, children |-> fields] >>,
    dataStack |-> <<Ref(Len(heap0) + 1)>>,
    iterationStack |-> <<Str(submission.instanceId)>>,
    nsStack |-> <<NULL>>,
    droppedWrapper |-> FALSE,
    promise |-> "pending",
    parser |-> "running" ]

\* dataPtr[key] = val; a TypeError (the promise rejects) when dataPtr is null
SetProp(w, dataPtr, key, val) ==
  IF dataPtr = NULL THEN [w EXCEPT !.promise = "rejected"]
  ELSE [w EXCEPT !.heap[dataPtr.id] = Put(@, key, val)]

\* PushEmptyFrame that stays at the current position instead of navigating
\* into nothing
PushEmptyFrameInPlace(w) ==
  [w EXCEPT !.fieldStack = pushPtr(@),
            !.dataStack = pushPtr(@),
            !.iterationStack = pushPtr(@),
            !.nsStack = pushPtr(@)]

\* the frame pushed for an element without schema definition, and for a
\* repeat that is not expanded
PushEmptyFrame(w) ==
  [w EXCEPT !.fieldStack = Append(@, NULL),
            !.dataStack = Append(@, NULL),
            !.iterationStack = Append(@, NULL),
            !.nsStack = Append(@, NULL)]

\* OpenStructure that forgets the namespace stack
OpenStructureUnsynced(w, field) ==
  [w EXCEPT !.fieldStack = Append(@, field),
            !.dataStack = pushPtr(@),
            !.iterationStack = Append(@, Str(<<>>))]

\* OpenStructure that pushes the name of the structure alone, without the
\* namespace it is opened in
OpenStructureFlat(w, field) ==
  [w EXCEPT !.fieldStack = Append(@, field),
            !.dataStack = pushPtr(@),
            !.iterationStack = Append(@, Str(<<>>)),
            !.nsStack = Append(@, Str(field.name))]

OpenStructure(w, field) ==
  LET nsPtr == ptr(w.nsStack)
  IN [w EXCEPT !.fieldStack = Append(@, field),
               !.dataStack = pushPtr(@),
               !.iterationStack = Append(@, Str(<<>>)),
               !.nsStack = Append(@, IF nsPtr = NULL THEN Str(field.name)
                                     ELSE Str(nsPtr.v \o <<"_", "_">> \o field.name))]

OpenPrimitive(w, field) ==
  [w EXCEPT !.fieldStack = Append(@, field),
            !.dataStack = pushPtr(@),
            !.iterationStack = pushPtr(@),
            !.nsStack = pushPtr(@)]

\* do contextStack.pop(); while (length > 0 && ptr(contextStack)[0].type !== 'repeat')
RECURSIVE PopUntilRepeat(_)
PopUntilRepeat(contextStack) ==
  IF Len(contextStack) > 0 /\ TypeOf(ptr(contextStack)[1]) # "repeat"
  THEN PopUntilRepeat(SubSeq(contextStack, 1, Len(contextStack) - 1))
  ELSE contextStack

\* ParentContext with a while loop in place of the do-while loop: the entry
\* of the new instance itself is not dropped
ParentContextWhile(contextStack) == PopUntilRepeat(contextStack)

ParentContext(contextStack) ==
  PopUntilRepeat(SubSeq(contextStack, 1, Len(contextStack) - 1))

\* ParentRefKey without the leading double underscore
ParentRefKeyBare(parentContext) ==
  IF Len(parentContext) = 0 THEN SubmissionsName \o <<"-", "i", "d">>
  ELSE Join([i \in 1..Len(parentContext) |-> parentContext[i][1].name], <<"-">>)
       \o <<"-", "i", "d">>

ParentRefKey(parentContext) ==
  IF Len(parentContext) = 0 THEN RootParentKey
  ELSE <<"_", "_">>
       \o Join([i \in 1..Len(parentContext) |-> parentContext[i][1].name], <<"-">>)
       \o <<"-", "i", "d">>

\* ParentRefValue without the case of the document root
ParentRefValueHashed(parentContext, submission) == Str(hashId(parentContext))

ParentRefValue(parentContext, submission) ==
  IF Len(parentContext) = 0 THEN Str(submission.instanceId)
  ELSE Str(hashId(parentContext))

\* the array dataPtr[name] the instances of a repeat are pushed into
RepeatArrayKey(nsPtr, name) == name

\* NextIteration from a count of all the objects created so far
NextIterationGlobal(w, obj, key) == Len(w.heap)

\* the iteration pushed for a new instance: dataPtr[name].length
NextIteration(w, obj, key) == IF key \in DOMAIN obj THEN Len(obj[key].v) ELSE 0

\* ExpandRepeat that pushes every new bag into result, whatever branchState
ExpandRepeatPushAll(w, fieldStack, name, branchState) ==
  LET dataPtr == ptr(w.dataStack)
      obj == w.heap[dataPtr.id]
      key == RepeatArrayKey(ptr(w.nsStack), name)
      items == IF key \in DOMAIN obj THEN obj[key].v ELSE <<>>
      iterationStack == Append(w.iterationStack, Num(NextIteration(w, obj, key), 0))
      contextStack == zip(fieldStack, iterationStack)
      bagId == Len(w.heap) + 1
      parentContext == ParentContext(contextStack)
      bag == Put((IdKey :> Str(hashId(contextStack))),
                 ParentRefKey(parentContext), ParentRefValue(parentContext, w.submission))
  IN [w EXCEPT !.heap = Append([@ EXCEPT ![dataPtr.id] = Put(@, key, Arr(Append(items, Ref(bagId))))], bag),
               !.fieldStack = fieldStack,
               !.dataStack = Append(@, Ref(bagId)),
               !.iterationStack = iterationStack,
               !.nsStack = Append(@, NULL),
               !.result = Append(@, Ref(bagId))]

\* branchState < 1: a new bag is created, pushed into dataPtr[name] and made
\* the data cursor; at branchState 0 it is also pushed into result with its
\* parent id reference.
ExpandRepeat(w, fieldStack, name, branchState) ==
  LET dataPtr == ptr(w.dataStack)
      obj == w.heap[dataPtr.id]
      key == RepeatArrayKey(ptr(w.nsStack), name)
      items == IF key \in DOMAIN obj THEN obj[key].v ELSE <<>>
      iterationStack == Append(w.iterationStack, Num(NextIteration(w, obj, key), 0))
      contextStack == zip(fieldStack, iterationStack)
      bagId == Len(w.heap) + 1
      bag0 == (IdKey :> Str(hashId(contextStack)))
      parentContext == ParentContext(contextStack)
      bag == IF branchState = BranchAt
             THEN Put(bag0, ParentRefKey(parentContext), ParentRefValue(parentContext, w.submission))
             ELSE bag0
  IN [w EXCEPT !.heap = Append([@ EXCEPT ![dataPtr.id] = Put(@, key, Arr(Append(items, Ref(bagId))))], bag),
               !.fieldStack = fieldStack,
               !.dataStack = Append(@, Ref(bagId)),
               !.iterationStack = iterationStack,
               !.nsStack = Append(@, NULL),
               !.result = IF branchState = BranchAt THEN Append(@, Ref(bagId)) ELSE @]

\* Expands that is true of every branch state
ExpandsAlways(branchState) == TRUE

\* branchState < 1: the repeat is expanded unless it is inside the table
Expands(branchState) == branchState < 1

OpenRepeat(w, field, name) ==
  LET fieldStack == Append(w.fieldStack, field)
      dataPtr == ptr(w.dataStack)
      target == TargetKey(ptr(w.nsStack), name)
      w1 == SetProp(w, dataPtr, target \o NavigationLinkSuffix,
                    Str(navigationLink(fieldStack, w.iterationStack)))
      branchState == getBranchState(fieldStack, w.table)
  IN IF w1.promise = "rejected" THEN w1
     ELSE IF Expands(branchState) THEN ExpandRepeat(w1, fieldStack, name, branchState)
     ELSE PushEmptyFrame(w1)

\* fieldPtr.children[name] != null
HasChild(fieldPtr, name) == fieldPtr # NULL /\ name \in DOMAIN fieldPtr.children

onopentag(w, fullname) ==
  IF w.droppedWrapper = FALSE THEN [w EXCEPT !.droppedWrapper = TRUE]
  ELSE LET name == stripNamespacesFromPath(fullname)
           fieldPtr == ptr(w.fieldStack)
       IN IF HasChild(fieldPtr, name)
          THEN LET field == fieldPtr.children[name]
               IN IF field.type = "structure" THEN OpenStructure(w, field)
                  ELSE IF field.type = "repeat" THEN OpenRepeat(w, field, name)
                  ELSE OpenPrimitive(w, field)
          ELSE PushEmptyFrame(w)

\* const [ lat, lon, altitude ] = text.split(/\s+/g).map(parseFloat); a
\* missing piece is undefined (NULL here)
GeoParts(text) ==
  LET pieces == SplitWhitespace(text)
  IN [i \in 1..3 |-> IF i <= Len(pieces) THEN parseFloat(pieces[i]) ELSE NULL]

\* GeoCoordinates that keeps the order of the text: [ lat, lon ]
GeoCoordinatesLatLon(text) ==
  LET lat == GeoParts(text)[1]
      lon == GeoParts(text)[2]
      altitude == GeoParts(text)[3]
  IN IF lat = NULL \/ lon = NULL THEN NULL
     ELSE IF lat = NaN \/ lon = NaN THEN NULL
     ELSE IF altitude # NULL /\ altitude # NaN THEN <<lat, lon, altitude>>
     ELSE <<lat, lon>>

\* the coordinates [ lon, lat ] or [ lon, lat, altitude ]; NULL when the
\* handler returns without writing
GeoCoordinates(text) ==
  LET lat == GeoParts(text)[1]
      lon == GeoParts(text)[2]
      altitude == GeoParts(text)[3]
  IN IF lat = NULL \/ lon = NULL THEN NULL
     ELSE IF lat = NaN \/ lon = NaN THEN NULL
     ELSE IF altitude # NULL /\ altitude # NaN THEN <<lon, lat, altitude>>
     ELSE <<lon, lat>>

\* options.wkt === true
WktOption(options) == "wkt" \in DOMAIN options /\ options.wkt = TRUE

GeoValue(coordinates, options) ==
  IF WktOption(options)
  THEN Str(<<"P", "O", "I", "N", "T", " ", "(">>
           \o Join([i \in 1..Len(coordinates) |-> NumToStr(coordinates[i])], <<" ">>)
           \o <<")">>)
  ELSE PointObj(coordinates)

WriteInt(w, dataPtr, target, text) == SetProp(w, dataPtr, target, parseInt(text))

WriteDecimal(w, dataPtr, target, text) == SetProp(w, dataPtr, target, parseFloat(text))

WriteGeopoint(w, dataPtr, target, text) ==
  IF GeoCoordinates(text) = NULL THEN w
  ELSE SetProp(w, dataPtr, target, GeoValue(GeoCoordinates(text), w.options))

WriteText(w, dataPtr, target, text) == SetProp(w, dataPtr, target, Str(text))

\* WritesAt that is true at the table as well as inside it
WritesAtOrInside(branchState) == branchState >= BranchAt

\* getBranchState(fieldStack, table) === 1: a text is written inside the
\* table only
WritesAt(branchState) == branchState = BranchInside

ontext(w, text) ==
  LET fieldPtr == ptr(w.fieldStack)
  IN IF fieldPtr # NULL /\ "name" \in DOMAIN fieldPtr
     THEN IF WritesAt(getBranchState(w.fieldStack, w.table))
          THEN LET dataPtr == ptr(w.dataStack)
                   target == TargetKey(ptr(w.nsStack), fieldPtr.name)
               IN IF TypeOf(fieldPtr) = "structure" \/ TypeOf(fieldPtr) = "repeat" THEN w
                  ELSE IF TypeOf(fieldPtr) = "int" THEN WriteInt(w, dataPtr, target, text)
                  ELSE IF TypeOf(fieldPtr) = "decimal" THEN WriteDecimal(w, dataPtr, target, text)
                  ELSE IF TypeOf(fieldPtr) = "geopoint" THEN WriteGeopoint(w, dataPtr, target, text)
                  ELSE WriteText(w, dataPtr, target, text)
          ELSE w
     ELSE w

Pop(stack) == SubSeq(stack, 1, Len(stack) - 1)

\* parser.reset() without effect: the parser goes on delivering the events
\* of the buffer
ResetParserNot(w) == w

\* parser.reset(): the buffer of the parser is emptied, no event follows
ResetParser(w) == [w EXCEPT !.parser = "reset"]

\* resolve(result): a promise settles once
Resolve(w) == IF w.promise = "pending" THEN [w EXCEPT !.promise = "resolved"] ELSE w

\* popstack; without a root fieldPtr left the submission is at its end: the
\* parser is reset and the promise resolves with result
onclosetag(w) ==
  LET w1 == [w EXCEPT !.fieldStack = Pop(@),
                      !.dataStack = Pop(@),
                      !.iterationStack = Pop(@),
                      !.nsStack = Pop(@)]
  IN IF Len(w1.fieldStack) = 0 THEN Resolve(ResetParser(w1)) ELSE w1

(***************************************************************************)
(* Schemas, tables and documents of the model.                             *)
(***************************************************************************)
Field(name, type, children) == [name |-> name, type |-> type, children |-> children]

Primitive(name, type) == Field(name, type, EmptyObject)

\* the children map of a list of fields
Children(fields) ==
  [name \in {fields[i].name : i \in 1..Len(fields)} |->
     fields[CHOOSE i \in 1..Len(fields) : fields[i].name = name] ]


TextLeaf == Primitive(<<"t">>, "string")

\* a repeat a holding a repeat b directly and a repeat c through a structure g
NestedFields ==
  Children(<< TextLeaf,
              Field(<<"a">>, "repeat", Children(<<
                Field(<<"b">>, "repeat", Children(<<TextLeaf>>)),
                Field(<<"g">>, "structure", Children(<<
                  Field(<<"c">>, "repeat", Children(<<TextLeaf>>)) >>)) >>)) >>)

\* the numeric types next to a text field, in the root row
NumericFields ==
  Children(<< Primitive(<<"n">>, "int"), Primitive(<<"d">>, "decimal"), TextLeaf >>)

\* a geopoint in the root row and one in a structure
GeoFields ==
  Children(<< Primitive(<<"p">>, "geopoint"),
              Field(<<"g">>, "structure", Children(<<Primitive(<<"p">>, "geopoint")>>)) >>)

\* numeric fields in the rows of a repeat
RowFields ==
  Children(<< Field(<<"a">>, "repeat", Children(<<
                Primitive(<<"n">>, "int"),
                Field(<<"g">>, "structure", Children(<<Primitive(<<"d">>, "decimal")>>)) >>)) >>)

\* two structures that each hold a repeat named r
TwinFields ==
  Children(<< Field(<<"g", "1">>, "structure", Children(<<
                Field(<<"r">>, "repeat", Children(<<TextLeaf>>)) >>)),
              Field(<<"g", "2">>, "structure", Children(<<
                Field(<<"r">>, "repeat", Children(<<TextLeaf>>)) >>)) >>)

\* a repeat a next to fields whose names begin with a
PrefixFields ==
  Children(<< Field(<<"a">>, "repeat", Children(<<TextLeaf>>)),
              Field(<<"a", "b">>, "repeat", Children(<<TextLeaf>>)),
              Primitive(<<"a", "t">>, "string") >>)

\* a structure g holding a structure h and a repeat r whose rows hold a
\* structure k
DeepFields ==
  Children(<< Field(<<"g">>, "structure", Children(<<
                Field(<<"h">>, "structure", Children(<<TextLeaf>>)),
                Field(<<"r">>, "repeat", Children(<<
                  Field(<<"k">>, "structure", Children(<<TextLeaf>>)) >>)) >>)) >>)

TablePath(names) == Join(<<SubmissionsName>> \o names, <<".">>)

NoOptions == [x \in {} |-> TRUE]

\* the text contents a document may use
Texts ==
  { <<"a", "b", "c">>,
    <<"1", "2">>,
    <<"1", ".", "0", " ", "2", ".", "0">>,
    <<"1", ".", "5", " ", "2", " ", "3">>,
    <<"1", " ", "2", " ", "x">> }

\* the documents of the scenarios whose rows hold scalar values create at
\* most this many bags
MaxValueRows == 2

\* the documents of the scenario whose rows hold numbers create at most
\* this many bags
MaxNumberRows == 1

\* the names of the fields of a schema
RECURSIVE NamesOf(_)
NamesOf(children) ==
  UNION {{name} \cup NamesOf(children[name].children) : name \in DOMAIN children}

\* a call of submissionToOData and the documents it is made on: the element
\* names the document may use (the names of the schema, a namespaced one and
\* one that the schema does not know), the texts it may hold and the number
\* of bags it may create
Scenario(fields, table, options, texts, rows) ==
  [fields |-> fields, table |-> table, options |-> options, texts |-> texts, rows |-> rows,
   tags |-> NamesOf(fields) \cup {<<"h", ":", "a">>, <<"z">>}]

Scenarios ==
  {Scenario(NestedFields, t, NoOptions, {<<"a", "b", "c">>}, MaxRows) :
     t \in {TablePath(<<>>), TablePath(<< <<"a">>, <<"b">> >>),
            TablePath(<< <<"a">>, <<"g">>, <<"c">> >>)}}
  \cup {Scenario(NestedFields, TablePath(<< <<"a">> >>), NoOptions, {<<"a", "b", "c">>}, MaxValueRows)}
  \cup {Scenario(NumericFields, TablePath(<<>>), NoOptions, Texts, MaxValueRows)}
  \cup {Scenario(GeoFields, TablePath(<<>>), o, Texts, MaxValueRows) :
          o \in {NoOptions, [wkt |-> TRUE], [wkt |-> FALSE]}}
  \cup {Scenario(RowFields, TablePath(<< <<"a">> >>), NoOptions,
                   {<<"a", "b", "c">>, <<"1", "2">>}, MaxNumberRows)}
  \cup {Scenario(TwinFields, t, NoOptions, {<<"a", "b", "c">>}, MaxRows) :
          t \in {TablePath(<< <<"g", "1">>, <<"r">> >>), TablePath(<< <<"g", "2">>, <<"r">> >>)}}
  \cup {Scenario(PrefixFields, TablePath(<< <<"a">> >>), NoOptions, {<<"a", "b", "c">>}, MaxValueRows)}
  \cup {Scenario(DeepFields, t, NoOptions, {<<"a", "b", "c">>}, MaxValueRows) :
          t \in {TablePath(<<>>), TablePath(<< <<"g">>, <<"r">> >>)}}

InstanceIds == { <<"u", "1">> }

\* the element names of all the documents
TagNames ==
  { <<"a">>, <<"b">>, <<"c">>, <<"g">>, <<"t">>, <<"n">>, <<"d">>, <<"p">>, <<"r">>,
    <<"g", "1">>, <<"g", "2">>, <<"a", "b">>, <<"a", "t">>, <<"h">>, <<"k">>,
    <<"h", ":", "a">>, <<"z">> }

\* the scenarios of the specification that converts a submission twice
RerunScenarios ==
  {Scenario(NestedFields, TablePath(<< <<"a">> >>), NoOptions, {<<"a", "b", "c">>}, MaxRows)}

\* the element names of the documents that are converted twice
RerunTagNames == { <<"a">>, <<"b">>, <<"z">> }

\* the number of events of a document that is converted twice
MaxEvents == 6

\* the number of events of the free document of two interleaved conversions
MaxPairEvents == 4

(***************************************************************************)
(* State: the closure of the running submissionToOData call, and the heap  *)
(* of the objects the calls have created.                                  *)
(***************************************************************************)
VARIABLES table, submission, options, heap, result, fieldStack, dataStack,
          iterationStack, nsStack, droppedWrapper, promise, parser

walkerVars == <<table, submission, options, heap, result, fieldStack, dataStack,
                iterationStack, nsStack, droppedWrapper, promise, parser>>

(***************************************************************************)
(* The document and the caller:                                            *)
(*   scenario  the scenario the call belongs to                            *)
(*   doc       the repeat instances the document has opened so far that    *)
(*             are not inside a row of the table, in document order        *)
(*   docStack  for each open element, its schema field and the repeat      *)
(*             instance it lies in                                         *)
(*   mode      "single": one conversion; "record": the first of two        *)
(*             conversions of a document; "replay": the second one;        *)
(*             "pair": one of two conversions that run interleaved         *)
(*   log       the events of the document that is converted twice          *)
(*   cursor    the next event of log to deliver to the second conversion   *)
(*   firstIds  the __id of each row the first conversion resolved with     *)
(*   heapBase  the size of the heap when the running call was made         *)
(*   other     the conversion that runs interleaved with this one: its     *)
(*             walker, less the heap the two allocate in, and the number   *)
(*             of events of its document delivered so far                  *)
(***************************************************************************)
VARIABLES scenario, doc, docStack, mode, log, cursor, firstIds, heapBase, other

docVars == <<scenario, doc, docStack, mode, log, cursor, firstIds, heapBase, other>>

(***************************************************************************)
(* The service of lib/resources/submissions.js:                            *)
(*   db       what the service has stored: the state of the form, the      *)
(*            submissions, their attachments, the blobs and the audit log  *)
(*   request  the request the service is handling: what was posted, how    *)
(*            far each branch of its promise chain has got, the outcome    *)
(*            of the authorization check and the response                  *)
(***************************************************************************)
VARIABLES db, request

vars == <<walkerVars, docVars, db, request>>

\* a database with a form in the given state and nothing else
EmptyDb(form) ==
  [form |-> form, submissions |-> {}, attachments |-> {}, blobs |-> {}, audits |-> <<>>]

\* no request has been received
NoRequest ==
  [ endpoint |-> "none", grants |-> {}, xml |-> <<>>, hasXml |-> FALSE, files |-> {},
    matches |-> TRUE, number |-> 0, left |-> "done", right |-> "none",
    status |-> "none", authorized |-> "unchecked", before |-> EmptyDb("none") ]

\* the service is not part of the run
NoService == db = EmptyDb("none") /\ request = NoRequest

\* the walker the variables hold
Walker ==
  [ table |-> table, submission |-> submission, options |-> options, heap |-> heap,
    result |-> result, fieldStack |-> fieldStack, dataStack |-> dataStack,
    iterationStack |-> iterationStack, nsStack |-> nsStack,
    droppedWrapper |-> droppedWrapper, promise |-> promise, parser |-> parser ]

\* the variables become the walker w
Becomes(w) ==
  /\ table' = w.table
  /\ submission' = w.submission
  /\ options' = w.options
  /\ heap' = w.heap
  /\ result' = w.result
  /\ fieldStack' = w.fieldStack
  /\ dataStack' = w.dataStack
  /\ iterationStack' = w.iterationStack
  /\ nsStack' = w.nsStack
  /\ droppedWrapper' = w.droppedWrapper
  /\ promise' = w.promise
  /\ parser' = w.parser

(***************************************************************************)
(* The document, followed independently of the walker.                     *)
(***************************************************************************)
\* the path is the table followed by '.' and further names
StrictlyInside(path, tbl) == StartsWith(Join(path, <<".">>), tbl \o <<".">>)

DocRoot(fields, instanceId) ==
  [ field |-> [name |-> SubmissionsName, children |-> fields],
    inst |-> 0,
    path |-> <<SubmissionsName>>,
    ancestry |-> << <<SubmissionsName, instanceId>> >> ]

\* the number of earlier instances of the repeat at path in the instance parent
Position(d, path, parent) ==
  Cardinality({i \in 1..Len(d) : d[i].path = path /\ d[i].parent = parent})

\* the element name opens below the element top: whether the schema knows it
DocKnown(top, name) == top.field # NULL /\ name \in DOMAIN top.field.children

\* whether the element is a repeat instance that doc records
DocRecorded(top, name, tbl) ==
  /\ DocKnown(top, name)
  /\ top.field.children[name].type = "repeat"
  /\ ~StrictlyInside(Append(top.path, name), tbl)

\* the frame of docStack for the element name opened below top, when the
\* instances so far are d
DocFrame(d, top, name, tbl) ==
  IF ~DocKnown(top, name)
  THEN [field |-> NULL, inst |-> top.inst, path |-> top.path, ancestry |-> top.ancestry]
  ELSE LET field == top.field.children[name]
           path == Append(top.path, name)
       IN IF DocRecorded(top, name, tbl)
          THEN [field |-> field, inst |-> Len(d) + 1, path |-> path,
                ancestry |-> Append(top.ancestry,
                                    <<name, NatToStr(Position(d, path, top.inst))>>)]
          ELSE [field |-> field, inst |-> top.inst, path |-> path,
                ancestry |-> IF field.type = "structure"
                             THEN Append(top.ancestry, <<name, <<>> >>)
                             ELSE top.ancestry]

\* the record of doc for a repeat instance: its schema path, the instance
\* it lies in (0: the root), its position among the instances of the same
\* repeat in the same parent, its ancestry of names and positions, and the
\* bag the walker created for it (0: none)
DocInstance(d, top, name, tbl, row) ==
  [ path |-> Append(top.path, name),
    parent |-> top.inst,
    position |-> Position(d, Append(top.path, name), top.inst),
    ancestry |-> DocFrame(d, top, name, tbl).ancestry,
    row |-> row ]

DocOpen(name, w) ==
  IF ~droppedWrapper \/ docStack = <<>> THEN UNCHANGED <<doc, docStack>>
  ELSE LET top == docStack[Len(docStack)]
       IN /\ docStack' = Append(docStack, DocFrame(doc, top, name, table))
          /\ doc' = IF DocRecorded(top, name, table)
                    THEN Append(doc, DocInstance(doc, top, name, table,
                                                 IF Len(w.heap) > Len(heap) THEN Len(w.heap) ELSE 0))
                    ELSE doc

DocClose ==
  /\ docStack' = SubSeq(docStack, 1, Len(docStack) - 1)
  /\ UNCHANGED doc

(***************************************************************************)
(* The calls.                                                              *)
(***************************************************************************)
Call(sc, id, heap0, m) ==
  LET w == NewWalker(heap0, sc.fields, sc.table, [instanceId |-> id], sc.options)
  IN /\ scenario = sc
     /\ table = w.table
     /\ submission = w.submission
     /\ options = w.options
     /\ heap = w.heap
     /\ result = w.result
     /\ fieldStack = w.fieldStack
     /\ dataStack = w.dataStack
     /\ iterationStack = w.iterationStack
     /\ nsStack = w.nsStack
     /\ droppedWrapper = w.droppedWrapper
     /\ promise = w.promise
     /\ parser = w.parser
     /\ doc = <<>>
     /\ docStack = <<DocRoot(sc.fields, id)>>
     /\ mode = m
     /\ log = <<>>
     /\ cursor = 1
     /\ firstIds = <<>>
     /\ heapBase = Len(heap0)

\* no conversion runs interleaved with the running one
NoOther == [w |-> NULL, pos |-> 0]

Init ==
  \E sc \in Scenarios, id \in InstanceIds :
    Call(sc, id, <<>>, "single") /\ other = NoOther /\ NoService

InitRerun ==
  \E sc \in RerunScenarios, id \in InstanceIds :
    Call(sc, id, <<>>, "record") /\ other = NoOther /\ NoService

\* the document of the model stays within MaxDepth frames and the bags and
\* instances of its scenario
WithinBounds(w) ==
  /\ Len(w.fieldStack) <= MaxDepth
  /\ Len(w.heap) <= heapBase + 1 + scenario.rows
  /\ Len(doc') <= scenario.rows

\* the parser delivers the event ev: any event of the document in the first
\* conversion, the logged one in the second
Delivers(ev) ==
  /\ parser = "running"
  /\ promise # "rejected"
  /\ IF mode = "replay" THEN cursor <= Len(log) /\ log[cursor] = ev
     ELSE IF mode = "record"
          THEN Len(log) < MaxEvents /\ (ev.kind = "open" => ev.name \in RerunTagNames)
          ELSE IF mode = "pair"
               THEN Len(log) < MaxPairEvents /\ (ev.kind = "open" => ev.name \in RerunTagNames)
               ELSE TRUE
  /\ log' = IF mode \in {"record", "pair"} THEN Append(log, ev) ELSE log
  /\ cursor' = IF mode = "replay" THEN cursor + 1 ELSE cursor
  /\ UNCHANGED <<scenario, mode, firstIds, heapBase, other, db, request>>

OpenTag ==
  \E fullname \in scenario.tags :
    /\ Delivers([kind |-> "open", name |-> fullname])
    /\ Becomes(onopentag(Walker, fullname))
    /\ DocOpen(stripNamespacesFromPath(fullname), onopentag(Walker, fullname))
    /\ mode \in {"single", "record"} => WithinBounds(onopentag(Walker, fullname))

Text ==
  \E text \in scenario.texts :
    /\ Delivers([kind |-> "text", text |-> text])
    /\ Becomes(ontext(Walker, text))
    /\ UNCHANGED <<doc, docStack>>

\* the parser only closes an element it has opened
CloseTag ==
  /\ droppedWrapper
  /\ Delivers([kind |-> "close"])
  /\ Becomes(onclosetag(Walker))
  /\ DocClose

\* the __id of each row of result
ResultIds == [i \in 1..Len(result) |-> heap[result[i].id][IdKey]]

\* the caller converts the same submission again, once the first conversion
\* has resolved: a new closure, on the heap as it is
Restart ==
  /\ mode = "record"
  /\ promise = "resolved"
  /\ Becomes(NewWalker(heap, scenario.fields, scenario.table, submission, scenario.options))
  /\ doc' = <<>>
  /\ docStack' = <<DocRoot(scenario.fields, submission.instanceId)>>
  /\ mode' = "replay"
  /\ cursor' = 1
  /\ firstIds' = ResultIds
  /\ heapBase' = Len(heap)
  /\ UNCHANGED <<scenario, log, other, db, request>>

Next == OpenTag \/ Text \/ CloseTag

NextRerun == OpenTag \/ Text \/ CloseTag \/ Restart

Spec == Init /\ [][Next]_vars

\* parser.write(submission.xml) returns while the promise is pending: the
\* document is exhausted, and the parser, which is never told that the
\* input has ended, delivers nothing more
WriteReturns ==
  /\ parser = "running"
  /\ promise = "pending"
  /\ parser' = "written"
  /\ UNCHANGED <<table, submission, options, heap, result, fieldStack, dataStack,
                 iterationStack, nsStack, droppedWrapper, promise, docVars, db, request>>

\* the scenarios of the specification whose documents may end anywhere
EndScenarios ==
  {Scenario(NestedFields, TablePath(<< <<"a">>, <<"b">> >>), NoOptions, {<<"a", "b", "c">>}, MaxValueRows)}

InitEnd ==
  \E sc \in EndScenarios, id \in InstanceIds :
    Call(sc, id, <<>>, "single") /\ other = NoOther /\ NoService

NextEnd == OpenTag \/ Text \/ CloseTag \/ WriteReturns

SpecEnd == InitEnd /\ [][NextEnd]_vars

\* the handler the parser calls for the event ev
Step(w, ev) ==
  IF ev.kind = "open" THEN onopentag(w, ev.name)
  ELSE IF ev.kind = "text" THEN ontext(w, ev.text)
  ELSE onclosetag(w)

RECURSIVE Run(_, _)
\* parser.write of a document with the given events, on the walker w alone
Run(w, events) ==
  IF events = <<>> \/ w.parser # "running" \/ w.promise = "rejected" THEN w
  ELSE Run(Step(w, Head(events)), Tail(events))

\* the submission and the document of the other conversion of a pair:
\* <z><a/><a/></z>
PairInstanceId == <<"u", "2">>

PairDocument ==
  << [kind |-> "open", name |-> <<"z">>],
     [kind |-> "open", name |-> <<"a">>], [kind |-> "close"],
     [kind |-> "open", name |-> <<"a">>], [kind |-> "close"],
     [kind |-> "close"] >>

\* two submissionToOData calls are made before the parser of either delivers
\* an event: the objects of both live in one heap, every other part of a
\* walker is the closure of its own call
InitPair ==
  \E sc \in RerunScenarios, id \in InstanceIds :
    LET b == NewWalker(<<>>, sc.fields, sc.table, [instanceId |-> PairInstanceId], sc.options)
    IN /\ Call(sc, id, b.heap, "pair")
       /\ other = [w |-> [b EXCEPT !.heap = <<>>], pos |-> 0]
       /\ NoService

\* the parser of the other conversion delivers the next event of its document
OtherEvent ==
  /\ mode = "pair"
  /\ other.pos < Len(PairDocument)
  /\ other.w.parser = "running"
  /\ LET after == Step([other.w EXCEPT !.heap = heap], PairDocument[other.pos + 1])
     IN /\ other' = [w |-> [after EXCEPT !.heap = <<>>], pos |-> other.pos + 1]
        /\ heap' = after.heap
  /\ UNCHANGED <<table, submission, options, result, fieldStack, dataStack,
                 iterationStack, nsStack, droppedWrapper, promise, parser,
                 scenario, doc, docStack, mode, log, cursor, firstIds, heapBase, db, request>>

NextPair == OpenTag \/ Text \/ CloseTag \/ OtherEvent

SpecPair == InitPair /\ [][NextPair]_vars

SpecRerun == InitRerun /\ [][NextRerun]_vars

(***************************************************************************)
(* The submission endpoints of lib/resources/submissions.js.  A request    *)
(* is a promise chain: every action below is one step of a chain, and the  *)
(* branches of a Promise.all advance independently of each other.          *)
(***************************************************************************)
\* the number of requests the service receives
MaxRequests == 2

\* the submission, the attachment the form expects of it, and the blobs of
\* a file posted with a submission and of the body of an attachment POST
HttpInstanceId == "i1"
ExpectedNames == {"f1"}
BlobIds == [file |-> "b1", body |-> "b2"]

\* Buffer.from(string): the bytes of the characters
BufferFrom(string) ==
  [i \in 1..Len(string) |->
     CASE string[i] = "<" -> 60 [] string[i] = ">" -> 62 [] string[i] = "/" -> 47
       [] string[i] = " " -> 32 [] string[i] = "a" -> 97 [] string[i] = "b" -> 98]

RECURSIVE BufferCompare(_, _)

\* Buffer.compare that looks at the lengths only
BufferCompareLength(a, b) ==
  IF Len(a) < Len(b) THEN -1 ELSE IF Len(a) > Len(b) THEN 1 ELSE 0

\* Buffer.compare(a, b): -1, 0 or 1 as a sorts before, with or after b
BufferCompare(a, b) ==
  IF Len(a) = 0 /\ Len(b) = 0 THEN 0
  ELSE IF Len(a) = 0 THEN -1
  ELSE IF Len(b) = 0 THEN 1
  ELSE IF a[1] < b[1] THEN -1
  ELSE IF a[1] > b[1] THEN 1
  ELSE BufferCompare(Tail(a), Tail(b))

(***************************************************************************)
(* The model objects the endpoints call (Submission, SubmissionPartial,    *)
(* SubmissionDef, SubmissionAttachment, Blob, Audit), as functions of the  *)
(* database.                                                               *)
(***************************************************************************)
\* Submission.getById(form.id, instanceId) finds a submission
Extant(d) == \E s \in d.submissions : s.instanceId = HttpInstanceId

\* the xml of extant.getCurrentVersion()
CurrentXml(d) == (CHOOSE s \in d.submissions : s.instanceId = HttpInstanceId).xml

\* SubmissionAttachment.getBySubmissionDefIdAndName(def.id, name) finds a row
HasAttachment(d, name) ==
  \E a \in d.attachments : a.instanceId = HttpInstanceId /\ a.name = name

\* partial.createAll(form, actor): the submission and its first version
createAll(d, xml) ==
  [d EXCEPT !.submissions = @ \cup {[instanceId |-> HttpInstanceId, xml |-> xml]}]

\* submissionDef.generateExpectedAttachments(form.def, files) and
\* SubmissionAttachment.createAll: a row for every attachment the form
\* expects, with the blob of the posted file of that name when there is one
createAttachments(d, files) ==
  [d EXCEPT !.attachments =
     @ \cup {[instanceId |-> HttpInstanceId, name |-> n,
              blobId |-> IF n \in files THEN BlobIds.file ELSE "none"] : n \in ExpectedNames},
            !.blobs = @ \cup {BlobIds.file : n \in files \cap ExpectedNames}]

\* extantVersion.upsertAttachments(files): the posted files of expected
\* names become the blobs of their rows
upsertAttachments(d, files) ==
  [d EXCEPT !.attachments =
     {a \in @ : ~(a.instanceId = HttpInstanceId /\ a.name \in files \cap ExpectedNames)}
       \cup {[instanceId |-> HttpInstanceId, name |-> n, blobId |-> BlobIds.file] :
               n \in files \cap ExpectedNames},
            !.blobs = @ \cup {BlobIds.file : n \in files \cap ExpectedNames}]

\* blob.ensure(): the blob is stored unless it is there already
ensure(d, blob) == [d EXCEPT !.blobs = @ \cup {blob}]

\* def.attach(name, blob): the row of that name, if any, gets the blob
attach(d, name, blob) ==
  IF ~HasAttachment(d, name) THEN d
  ELSE [d EXCEPT !.attachments =
          {a \in @ : ~(a.instanceId = HttpInstanceId /\ a.name = name)}
            \cup {[instanceId |-> HttpInstanceId, name |-> name, blobId |-> blob]}]

\* attachment.clear(): the row loses its blob
clear(d, name) == attach(d, name, "none")

\* Audit.log(actor, action, form, details)
AuditLog(d, action) ==
  [d EXCEPT !.audits = Append(@, [action |-> action, instanceId |-> HttpInstanceId])]

(***************************************************************************)
(* The steps of a request.                                                 *)
(***************************************************************************)
\* the requests the service may receive as its request number n, on the
\* database d: the fields an endpoint does not read have one value.  The
\* actor may create submissions on the form, update them, or neither, and
\* the posted xml is one of three that differ in a character or in length
RequestsOn(d, n) ==
  LET base == [ endpoint |-> "none", grants |-> {}, xml |-> <<"<", "a", "/", ">">>,
                hasXml |-> TRUE, files |-> {}, matches |-> TRUE, number |-> n,
                left |-> "form", right |-> "none", status |-> "pending",
                authorized |-> "unchecked", before |-> d ]
      Grants == { {}, {"submission.create"}, {"submission.update"} }
      HttpXmls == { <<"<", "a", "/", ">">>, <<"<", "b", "/", ">">>,
                    <<"<", "a", "/", ">", " ">> }
  IN {[base EXCEPT !.endpoint = "openrosa", !.left = "start", !.grants = g, !.xml = x,
                   !.hasXml = h, !.files = f] :
        g \in Grants, x \in HttpXmls, h \in BOOLEAN, f \in SUBSET ExpectedNames}
     \cup {[base EXCEPT !.endpoint = "rest", !.right = "parse", !.grants = g, !.xml = x,
                        !.matches = m] :
             g \in Grants, x \in HttpXmls, m \in BOOLEAN}
     \cup {[base EXCEPT !.endpoint = "attach", !.right = "stream", !.grants = g] : g \in Grants}
     \cup {[base EXCEPT !.endpoint = "detach", !.grants = g] : g \in Grants}

\* the service receives a request once the one before has been answered and
\* its promises have settled
Receive ==
  /\ request.status # "pending"
  /\ request.left = "done"
  /\ request.right \in {"none", "done"}
  /\ request.number < MaxRequests
  /\ request' \in RequestsOn(db, request.number + 1)
  /\ UNCHANGED <<db, walkerVars, docVars>>

\* the main chain of a request to the endpoint is at the step pc
Handles(endpoint, pc) ==
  /\ request.endpoint = endpoint
  /\ request.left = pc
  /\ UNCHANGED <<walkerVars, docVars>>

\* the chain goes on with the step pc
Advance(pc) == request' = [request EXCEPT !.left = pc]

\* the chain ends, by a rejection with a problem or by its last step: the
\* first outcome of the request is its response
Settle(outcome) ==
  /\ request' = [request EXCEPT !.left = "done",
                                !.status = IF @ = "pending" THEN outcome ELSE @]
  /\ db' = db

\* .then(getOrNotFound) on what a lookup has found
getOrNotFound(found, pc) ==
  IF ~found THEN Settle("notFound") ELSE Advance(pc) /\ db' = db

\* .then((form) => auth.canOrReject(action, form))
canOrReject(action, pc) ==
  /\ db' = db
  /\ IF action \in request.grants
     THEN request' = [request EXCEPT !.authorized = "granted", !.left = pc]
     ELSE request' = [request EXCEPT !.authorized = "denied", !.left = "done",
                                     !.status = IF @ = "pending" THEN "insufficientRights" ELSE @]

(* POST /projects/:projectId/submission *)
OpenRosaStart ==
  /\ Handles("openrosa", "start")
  /\ IF ~request.hasXml THEN Settle("missingMultipartField")
     ELSE Advance("form") /\ db' = db

OpenRosaForm == Handles("openrosa", "form") /\ getOrNotFound(db.form # "none", "auth")

OpenRosaAuth == Handles("openrosa", "auth") /\ canOrReject("submission.create", "accepts")

OpenRosaAccepts ==
  /\ Handles("openrosa", "accepts")
  /\ IF db.form # "open" THEN Settle("notAcceptingSubmissions")
     ELSE Advance("lookup") /\ db' = db

\* Submission.getById, and the current version of the submission it finds
OpenRosaLookup ==
  /\ Handles("openrosa", "lookup")
  /\ db' = db
  /\ IF Extant(db) THEN Advance("compare") ELSE Advance("create")

OpenRosaCompare ==
  /\ Handles("openrosa", "compare")
  /\ IF BufferCompare(BufferFrom(CurrentXml(db)), BufferFrom(request.xml)) # 0
     THEN Settle("xmlConflict")
     ELSE Advance("log") /\ db' = upsertAttachments(db, request.files)

OpenRosaCreate ==
  /\ Handles("openrosa", "create")
  /\ Advance("expect")
  /\ db' = createAll(db, request.xml)

OpenRosaExpect ==
  /\ Handles("openrosa", "expect")
  /\ Advance("log")
  /\ db' = IF request.files \cap ExpectedNames = {}
           THEN createAttachments(db, request.files)
           ELSE AuditLog(createAttachments(db, request.files), "submission.attachment.update")

OpenRosaLog ==
  /\ Handles("openrosa", "log")
  /\ Advance("respond")
  /\ db' = AuditLog(db, "submission.create")

OpenRosaRespond == Handles("openrosa", "respond") /\ Settle("created")

(* POST /projects/:projectId/forms/:formId/submissions *)
RestForm == Handles("rest", "form") /\ getOrNotFound(db.form # "none", "auth")

RestAuth == Handles("rest", "auth") /\ canOrReject("submission.create", "joined")

\* SubmissionPartial.fromXml(body), the other promise of the Promise.all
RestParse ==
  /\ request.endpoint = "rest"
  /\ request.right = "parse"
  /\ request' = [request EXCEPT !.right = "done"]
  /\ UNCHANGED <<db, walkerVars, docVars>>

RestJoin ==
  /\ Handles("rest", "joined")
  /\ request.right = "done"
  /\ IF ~request.matches THEN Settle("unexpectedValue")
     ELSE IF db.form # "open" THEN Settle("notAcceptingSubmissions")
     ELSE IF Extant(db) THEN Settle("conflict")
     ELSE Advance("expect") /\ db' = createAll(db, request.xml)

RestExpect ==
  /\ Handles("rest", "expect")
  /\ Advance("respond")
  /\ db' = AuditLog(createAttachments(db, {}), "submission.create")

RestRespond == Handles("rest", "respond") /\ Settle("ok")

(* POST .../submissions/:instanceId/attachments/:name *)
AttachForm == Handles("attach", "form") /\ getOrNotFound(db.form # "none", "auth")

AttachAuth == Handles("attach", "auth") /\ canOrReject("submission.update", "def")

AttachDef == Handles("attach", "def") /\ getOrNotFound(Extant(db), "old")

AttachOld == Handles("attach", "old") /\ getOrNotFound(HasAttachment(db, "f1"), "joined")

\* Blob.fromStream(request, headers['content-type']), the other promise of
\* the Promise.all
AttachStream ==
  /\ request.endpoint = "attach"
  /\ request.right = "stream"
  /\ request' = [request EXCEPT !.right = "ensure"]
  /\ UNCHANGED <<db, walkerVars, docVars>>

\* .then((blob) => blob.ensure())
AttachEnsure ==
  /\ request.endpoint = "attach"
  /\ request.right = "ensure"
  /\ request' = [request EXCEPT !.right = "done"]
  /\ db' = ensure(db, BlobIds.body)
  /\ UNCHANGED <<walkerVars, docVars>>

AttachJoin ==
  /\ Handles("attach", "joined")
  /\ request.right = "done"
  /\ Advance("respond")
  /\ db' = AuditLog(attach(db, "f1", BlobIds.body), "submission.attachment.update")

AttachRespond ==
  /\ Handles("attach", "respond")
  /\ IF HasAttachment(db, "f1") THEN Settle("ok") ELSE Settle("notFound")

(* DELETE .../submissions/:instanceId/attachments/:name *)
DetachForm == Handles("detach", "form") /\ getOrNotFound(db.form # "none", "auth")

DetachAuth == Handles("detach", "auth") /\ canOrReject("submission.update", "def")

DetachDef == Handles("detach", "def") /\ getOrNotFound(Extant(db), "old")

DetachOld == Handles("detach", "old") /\ getOrNotFound(HasAttachment(db, "f1"), "clear")

DetachClear ==
  /\ Handles("detach", "clear")
  /\ Advance("respond")
  /\ db' = AuditLog(clear(db, "f1"), "submission.attachment.update")

DetachRespond == Handles("detach", "respond") /\ Settle("ok")

\* the service starts on a form that is open, closed or missing; no
\* conversion runs
InitHttp ==
  /\ \E sc \in EndScenarios, id \in InstanceIds : Call(sc, id, <<>>, "single") /\ other = NoOther
  /\ \E form \in {"open", "closed", "none"} : db = EmptyDb(form)
  /\ request = NoRequest

NextHttp ==
  \/ Receive
  \/ OpenRosaStart \/ OpenRosaForm \/ OpenRosaAuth \/ OpenRosaAccepts \/ OpenRosaLookup
  \/ OpenRosaCompare \/ OpenRosaCreate \/ OpenRosaExpect \/ OpenRosaLog \/ OpenRosaRespond
  \/ RestForm \/ RestAuth \/ RestParse \/ RestJoin \/ RestExpect \/ RestRespond
  \/ AttachForm \/ AttachAuth \/ AttachDef \/ AttachOld \/ AttachStream \/ AttachEnsure
  \/ AttachJoin \/ AttachRespond
  \/ DetachForm \/ DetachAuth \/ DetachDef \/ DetachOld \/ DetachClear \/ DetachRespond

SpecHttp == InitHttp /\ [][NextHttp]_vars

(***************************************************************************)
(* Properties.                                                             *)
(***************************************************************************)
EndsWith(s, suffix) ==
  /\ Len(suffix) <= Len(s)
  /\ SubSeq(s, Len(s) - Len(suffix) + 1, Len(s)) = suffix

\* the keys of the form __<ancestor path>-id of a row
ParentRefKeys(obj) ==
  {key \in DOMAIN obj : key # IdKey /\ StartsWith(key, <<"_", "_">>) /\ EndsWith(key, <<"-", "i", "d">>)}

\* the instances of doc whose path is the table
TableInstances == {i \in 1..Len(doc) : Join(doc[i].path, <<".">>) = table}

SameDepth ==
  /\ Len(dataStack) = Len(fieldStack)
  /\ Len(iterationStack) = Len(fieldStack)
  /\ Len(nsStack) = Len(fieldStack)

\* C1: the four traversal stacks have the same length after every event:
\* an open event after the envelope open (the document gets one element
\* deeper) pushes exactly one entry on each of the four, a close event (the
\* document gets one element shallower) pops exactly one entry from each,
\* and a text event leaves the four lengths alone.
C1_StacksInLockstep ==
  [][ /\ SameDepth
      /\ SameDepth'
      /\ Len(fieldStack') - Len(fieldStack) = Len(docStack') - Len(docStack)
      /\ Len(dataStack') - Len(dataStack) = Len(docStack') - Len(docStack)
      /\ Len(iterationStack') - Len(iterationStack) = Len(docStack') - Len(docStack)
      /\ Len(nsStack') - Len(nsStack) = Len(docStack') - Len(docStack) ]_vars

\* a second instance of a repeat is open and a structure is open in it
C1_Witness ==
  /\ Len(doc) >= 2
  /\ Len(fieldStack) >= 3
  /\ ptr(nsStack) # NULL
  /\ SameDepth

\* C2: when the table is the root table, the result has exactly one row at
\* every moment of the conversion, that row is the root row and its __id is
\* the instanceId of the submission: no repeat instance is appended.
C2_RootTableOneRow ==
  table = SubmissionsName =>
    /\ Len(result) = 1
    /\ result[1] = Ref(heapBase + 1)
    /\ heap[result[1].id][IdKey] = Str(submission.instanceId)

\* a conversion of the root table has resolved after it met a repeat
C2_Witness ==
  /\ table = SubmissionsName
  /\ promise = "resolved"
  /\ (<<"a">> \o NavigationLinkSuffix) \in DOMAIN heap[heapBase + 1]
  /\ Len(result) = 1

\* C3: when the table is a top-level repeat, the result has as many rows as
\* the document has opened instances of that repeat, and every row has the
\* key __Submissions-id with the instanceId of the submission.
C3_FlatRepeatRows ==
  (\E name \in TagNames : table = TablePath(<<name>>)) =>
    /\ Len(result) = Cardinality(TableInstances)
    /\ \A j \in 1..Len(result) :
         /\ RootParentKey \in DOMAIN heap[result[j].id]
         /\ heap[result[j].id][RootParentKey] = Str(submission.instanceId)

\* a document with two instances of the top-level repeat a has been converted
C3_Witness ==
  /\ table = TablePath(<< <<"a">> >>)
  /\ promise = "resolved"
  /\ Cardinality(TableInstances) = 2
  /\ Len(result) = 2

\* the rows of the table that lie in an instance of an enclosing repeat
NestedTableInstances == {i \in TableInstances : doc[i].parent # 0}

\* the value of the parent reference of the bag row
ParentRefOf(row) == heap[row][CHOOSE key \in ParentRefKeys(heap[row]) : TRUE]

\* C4: every row of a repeat nested in a repeat carries a parent reference
\* whose value is the __id of the row of the instance that encloses it in the
\* document; two rows carry the same value exactly when they lie in the same
\* enclosing instance.
C4_ParentReference ==
  /\ \A i \in NestedTableInstances :
       /\ doc[i].row # 0
       /\ doc[doc[i].parent].row # 0
       /\ ParentRefKeys(heap[doc[i].row]) # {}
       /\ \A key \in ParentRefKeys(heap[doc[i].row]) :
            heap[doc[i].row][key] = heap[doc[doc[i].parent].row][IdKey]
  /\ \A i, j \in NestedTableInstances :
       (ParentRefOf(doc[i].row) = ParentRefOf(doc[j].row)) <=> (doc[i].parent = doc[j].parent)

\* rows of a nested repeat under two instances of the enclosing repeat
C4_Witness ==
  /\ \E i, j \in NestedTableInstances : doc[i].parent # doc[j].parent
  /\ \A i \in NestedTableInstances : doc[i].row # 0 /\ ParentRefKeys(heap[doc[i].row]) # {}

\* C5: converting the same submission (same instanceId, same events) with
\* the same schema and table a second time resolves with rows that carry,
\* position by position, the __id values of the first conversion.
C5_SameIdsOnRerun ==
  (mode = "replay" /\ promise = "resolved") => ResultIds = firstIds

\* the second conversion of a document with two rows has resolved
C5_Witness ==
  /\ mode = "replay"
  /\ promise = "resolved"
  /\ Len(firstIds) = 2
  /\ firstIds[1] # firstIds[2]
  /\ ResultIds = firstIds

\* the digest of the ancestry of an instance: the names of the fields from
\* the root to it, each with its position among the instances of the same
\* repeat in the same parent (the instanceId for the root, nothing for a
\* structure)
AncestryId(ancestry) ==
  shasum(Join([i \in 1..Len(ancestry) |-> ancestry[i][1] \o <<"#">> \o ancestry[i][2]],
              <<"%", "%">>))

\* C6: the __id of a row is decided by the ancestry of its instance alone,
\* that is by the fields on it and by the position of each repeat instance
\* among the instances of the same repeat: a change of that position changes
\* the __id, and content that is not on the ancestry (texts, unknown
\* elements, elements of other fields) does not.
C6_IdFromAncestryOnly ==
  /\ \A i \in 1..Len(doc) :
       doc[i].row # 0 => heap[doc[i].row][IdKey] = Str(AncestryId(doc[i].ancestry))
  /\ \A i, j \in 1..Len(doc) :
       (doc[i].row # 0 /\ doc[j].row # 0 /\ doc[i].ancestry # doc[j].ancestry)
         => heap[doc[i].row][IdKey] # heap[doc[j].row][IdKey]

\* the rows of the instances of doc whose path is the table, in document order
RECURSIVE TableRows(_)
TableRows(d) ==
  IF Len(d) = 0 THEN <<>>
  ELSE TableRows(SubSeq(d, 1, Len(d) - 1))
         \o (IF Join(d[Len(d)].path, <<".">>) = table THEN <<Ref(d[Len(d)].row)>> ELSE <<>>)

\* the root row, when the table is the root table
SeededRows == IF table = SubmissionsName THEN <<Ref(heapBase + 1)>> ELSE <<>>

\* the branch state of the instance i of doc
ClassifiedAs(i) == getBranchState([j \in 1..Len(doc[i].path) |-> [name |-> doc[i].path[j]]], table)

\* C7: the result is the sequence of the bags of the repeat instances whose
\* path equals the table, each once, in the order of their open events (after
\* the root row when the table is the root table, which no repeat path
\* equals); an instance classified Outside has a bag in the data tree and is
\* not in the result.
C7_ResultInDocumentOrder ==
  /\ result = SeededRows \o TableRows(doc)
  /\ \A i \in 1..Len(doc) : doc[i].row # 0 \/ ClassifiedAs(i) = BranchInside
  /\ \A i \in 1..Len(doc) :
       ClassifiedAs(i) = BranchOutside =>
         /\ doc[i].row # 0
         /\ \A j \in 1..Len(result) : result[j] # Ref(doc[i].row)
         /\ \E id \in 1..Len(heap) : \E key \in DOMAIN heap[id] :
              heap[id][key].k = "array"
              /\ \E n \in 1..Len(heap[id][key].v) : heap[id][key].v[n] = Ref(doc[i].row)

\* two rows of a nested repeat are in the result, in two instances of the
\* enclosing repeat, which is Outside
C7_Witness ==
  /\ Len(result) = 2
  /\ result[1].id < result[2].id
  /\ \E i \in 1..Len(doc) : ClassifiedAs(i) = BranchOutside /\ doc[i].row > result[1].id
  /\ promise = "resolved"

\* C8: a text that does not parse as a number, at an Int or Decimal field
\* inside the table, writes nothing: the key stays absent, so no key of any
\* object holds NaN.
C8_FailedNumberLeavesKeyAbsent ==
  \A id \in 1..Len(heap) : \A key \in DOMAIN heap[id] : heap[id][key] # NaN

\* the element that is open is a geopoint field inside the table
AtGeopointInside ==
  /\ Len(docStack) > 0
  /\ ptr(docStack).field # NULL
  /\ TypeOf(ptr(docStack).field) = "geopoint"
  /\ StrictlyInside(ptr(docStack).path, table)

\* the piece i of the text is there and parses as a number
ValidPiece(text, i) ==
  i <= Len(SplitWhitespace(text)) /\ parseFloat(SplitWhitespace(text)[i]) # NaN

PieceValue(text, i) == parseFloat(SplitWhitespace(text)[i])

\* [longitude, latitude] and the altitude when a valid third piece is there
ClaimedCoordinates(text) ==
  <<PieceValue(text, 2), PieceValue(text, 1)>>
    \o (IF ValidPiece(text, 3) THEN <<PieceValue(text, 3)>> ELSE <<>>)

\* 'POINT (lon lat[ alt])'
ClaimedWkt(text) ==
  Str(<<"P", "O", "I", "N", "T", " ", "(">>
      \o NumToStr(PieceValue(text, 2)) \o <<" ">> \o NumToStr(PieceValue(text, 1))
      \o (IF ValidPiece(text, 3) THEN <<" ">> \o NumToStr(PieceValue(text, 3)) ELSE <<>>)
      \o <<")">>)

\* C9: a text event at a geopoint field inside the table writes nothing when
\* the text, split on whitespace, lacks a valid latitude or a valid longitude;
\* otherwise the field gets [longitude, latitude] and the altitude of a valid
\* third piece, as the string 'POINT (lon lat[ alt])' when options.wkt is
\* true and as {type: 'Point', coordinates} otherwise, also when the option is
\* not given.  The text '1.0 2.0' gives 'POINT (2 1)' and [2, 1].
C9_GeopointValue ==
  [][ \A text \in Texts :
        (AtGeopointInside /\ docStack' = docStack /\ Becomes(ontext(Walker, text))) =>
          LET id == ptr(dataStack).id
              key == TargetKey(ptr(nsStack), ptr(docStack).field.name)
          IN /\ (~ValidPiece(text, 1) \/ ~ValidPiece(text, 2)) => heap' = heap
             /\ (ValidPiece(text, 1) /\ ValidPiece(text, 2)) =>
                  /\ key \in DOMAIN heap'[id]
                  /\ heap'[id][key] =
                       (IF "wkt" \in DOMAIN options /\ options.wkt = TRUE
                        THEN ClaimedWkt(text)
                        ELSE PointObj(ClaimedCoordinates(text)))
                  /\ heap' = [heap EXCEPT ![id] = Put(@, key, heap'[id][key])]
             /\ text = <<"1", ".", "0", " ", "2", ".", "0">> =>
                  heap'[id][key] \in
                    { Str(<<"P", "O", "I", "N", "T", " ", "(", "2", " ", "1", ")">>),
                      PointObj(<<Num(2, 0), Num(1, 0)>>) } ]_vars

\* without the option, a geopoint with an altitude has been written in a
\* structure, and the text with a latitude only has left its field absent
C9_Witness ==
  /\ options = NoOptions
  /\ (<<"g", "_", "_", "p">>) \in DOMAIN heap[heapBase + 1]
  /\ heap[heapBase + 1][<<"g", "_", "_", "p">>] = PointObj(<<Num(2, 0), Num(15, 1), Num(3, 0)>>)
  /\ <<"p">> \notin DOMAIN heap[heapBase + 1]

\* the element that is open, or one that encloses it, is not among the
\* children of its schema position
InUnknown == Len(docStack) > 0 /\ ptr(docStack).field = NULL

\* C10: the open of an element that the schema position does not have as a
\* child pushes an empty frame, and from that open to its matching close no
\* event changes a row of the data tree or the result, and the promise is
\* not rejected.
C10_UnknownSubtreeIgnored ==
  [][ (InUnknown \/ InUnknown') =>
        /\ heap' = heap
        /\ result' = result
        /\ promise' # "rejected"
        /\ InUnknown' =>
             /\ ptr(fieldStack') = NULL
             /\ ptr(dataStack') = NULL
             /\ ptr(iterationStack') = NULL
             /\ ptr(nsStack') = NULL ]_vars

\* an unknown element is open inside an unknown element inside a row that
\* holds a value
C10_Witness ==
  /\ Len(docStack) >= 3
  /\ docStack[Len(docStack)].field = NULL
  /\ docStack[Len(docStack) - 1].field = NULL
  /\ docStack[Len(docStack) - 2].field # NULL
  /\ ptr(fieldStack) = NULL
  /\ \E id \in 1..Len(heap) : <<"t">> \in DOMAIN heap[id]

\* C11: every row of the result has the key __id; when the table is not the
\* root table every row has exactly one key of the form __<ancestor path>-id,
\* and the row of the root table has none.
C11_RowKeys ==
  \A j \in 1..Len(result) :
    /\ IdKey \in DOMAIN heap[result[j].id]
    /\ IF table = SubmissionsName
       THEN ParentRefKeys(heap[result[j].id]) = {}
       ELSE Cardinality(ParentRefKeys(heap[result[j].id])) = 1

\* a conversion of a nested table has resolved with two rows, one of which
\* holds a value next to its two reserved keys
C11_Witness ==
  /\ promise = "resolved"
  /\ table = TablePath(<< <<"a">>, <<"b">> >>)
  /\ Len(result) = 2
  /\ \E j \in 1..Len(result) :
       /\ <<"t">> \in DOMAIN heap[result[j].id]
       /\ Cardinality(DOMAIN heap[result[j].id]) = 3

\* C12: the promise resolves at the close event that closes the envelope,
\* the one that brings the depth to zero, and at no other event; once it
\* has resolved no event is processed: nothing of the conversion changes,
\* the result and its rows included, and the promise stays resolved.
C12_ResolveIsTerminal ==
  [][ /\ (promise = "pending" /\ promise' = "resolved") =>
           (Len(docStack) = 1 /\ docStack' = <<>> /\ Len(fieldStack') = 0)
      /\ (promise = "pending" /\ docStack # <<>> /\ docStack' = <<>>) =>
           promise' = "resolved"
      /\ promise = "resolved" => UNCHANGED walkerVars ]_vars

\* the envelope has closed on a conversion with two rows
C12_Witness ==
  /\ promise = "resolved"
  /\ parser = "reset"
  /\ docStack = <<>>
  /\ Len(fieldStack) = 0
  /\ Len(result) = 2

\* C13: when the document ends while elements are still open, so that the
\* events stop before the depth is back to zero, the conversion fails: the
\* promise is rejected, it is not left pending and it does not resolve with
\* the rows gathered so far.
C13_UnbalancedDocumentFails ==
  (parser = "written" /\ droppedWrapper /\ docStack # <<>>) => promise = "rejected"

\* the rows of the result of the walker w
Rows(w) == [j \in 1..Len(w.result) |-> w.heap[w.result[j].id]]

\* the walker of a conversion of the scenario that runs alone on the events
Alone(sub, events) ==
  Run(NewWalker(<<>>, scenario.fields, scenario.table, sub, scenario.options), events)

\* C14: when the events of two conversions are interleaved in any order,
\* each of the two has, after every event, the rows and the promise state
\* it has after the same events of its own document when it runs alone; in
\* particular each resolves with the result it resolves with alone.
C14_InterleavedAsAlone ==
  mode = "pair" =>
    /\ Rows(Walker) = Rows(Alone(submission, log))
    /\ promise = Alone(submission, log).promise
    /\ Rows([other.w EXCEPT !.heap = heap])
         = Rows(Alone(other.w.submission, SubSeq(PairDocument, 1, other.pos)))
    /\ other.w.promise = Alone(other.w.submission, SubSeq(PairDocument, 1, other.pos)).promise

\* both conversions have resolved, and the row of the one was created
\* between the two rows of the other
C14_Witness ==
  /\ mode = "pair"
  /\ promise = "resolved"
  /\ other.w.promise = "resolved"
  /\ Len(result) = 1
  /\ Len(other.w.result) = 2
  /\ other.w.result[1].id < result[1].id
  /\ result[1].id < other.w.result[2].id

\* the stack of schema fields that stands for a path of names
PathStack(path) == [i \in 1..Len(path) |-> [name |-> path[i]]]

\* at the table when the path is the table, inside it when the path is the
\* table followed by '.' and further names, outside otherwise
SeparatorBranchState(path, tbl) ==
  IF Join(path, <<".">>) = tbl THEN BranchAt
  ELSE IF StrictlyInside(path, tbl) THEN BranchInside
  ELSE BranchOutside

\* C15: for the schema path of every element the document has open,
\* getBranchState returns 0 when the path is the table, 1 only when the path
\* is the table followed by '.' and further names, and -1 otherwise; the
\* path Submissions.ab is outside the table Submissions.a.
C15_BranchStateBySeparator ==
  \A k \in 1..Len(docStack) :
    docStack[k].field # NULL =>
      getBranchState(PathStack(docStack[k].path), table)
        = SeparatorBranchState(docStack[k].path, table)

\* the element number k of the open ones is a repeat that the schema knows
\* and getBranchState classifies inside the table
CollapsedFrame(k) ==
  /\ docStack[k].field # NULL
  /\ TypeOf(docStack[k].field) = "repeat"
  /\ getBranchState(PathStack(docStack[k].path), table) = BranchInside

\* the element that is open is such a repeat or lies in one
InCollapsed == \E k \in 1..Len(docStack) : CollapsedFrame(k)

\* C16: the open of a repeat while the branch state is Inside pushes an
\* empty frame on the four stacks, creates no row and no array and appends
\* nothing to the result: the one thing it writes is the navigation link
\* on the data cursor; from that open to the matching close no event writes
\* anything, and every element opened in between gets an empty frame.
C16_InsideRepeatCollapsed ==
  [][ /\ (~InCollapsed /\ InCollapsed') =>
           LET key == TargetKey(ptr(nsStack), ptr(docStack').field.name) \o NavigationLinkSuffix
               cursorId == ptr(dataStack).id
           IN /\ ptr(fieldStack') = NULL
              /\ ptr(dataStack') = NULL
              /\ ptr(iterationStack') = NULL
              /\ ptr(nsStack') = NULL
              /\ result' = result
              /\ Len(heap') = Len(heap)
              /\ key \in DOMAIN heap'[cursorId]
              /\ heap' = [heap EXCEPT ![cursorId] = Put(@, key, heap'[cursorId][key])]
      /\ InCollapsed =>
           /\ heap' = heap
           /\ result' = result
           /\ InCollapsed' => ptr(fieldStack') = NULL ]_vars

\* inside a row of the table a the repeat b is open and its child t is open
\* in it: the row has the navigation link of b and no array for it
C16_Witness ==
  /\ table = TablePath(<< <<"a">> >>)
  /\ InCollapsed
  /\ Len(docStack) = 4
  /\ ptr(docStack).field # NULL
  /\ ptr(docStack).field.name = <<"t">>
  /\ ptr(fieldStack) = NULL
  /\ \E j \in 1..Len(result) :
       /\ (<<"b">> \o NavigationLinkSuffix) \in DOMAIN heap[result[j].id]
       /\ <<"b">> \notin DOMAIN heap[result[j].id]

\* the innermost of the open elements that is a row: the root, or a repeat
\* instance
RowFrame(stack) ==
  CHOOSE k \in 1..Len(stack) :
    /\ k = 1 \/ TypeOf(stack[k].field) = "repeat"
    /\ \A j \in (k + 1)..Len(stack) : TypeOf(stack[j].field) # "repeat"

\* the bag of the row the open elements lie in
OwnerRow(stack) ==
  IF ptr(stack).inst = 0 THEN heapBase + 1 ELSE doc[ptr(stack).inst].row

\* the key of the field name below the open elements: the names of the
\* structures opened since the row, then the name, joined by '__'
ResolvedName(stack, name) ==
  LET k == RowFrame(stack)
  IN Join([j \in 1..(Len(stack) - k + 1) |->
             IF j = Len(stack) - k + 1 THEN name ELSE stack[k + j].field.name],
          <<"_", "_">>)

\* the step of a navigation link for the open element number k
LinkStep(stack, k) ==
  IF k = 1
  THEN SubmissionsName \o <<"(", "'">> \o submission.instanceId \o <<"'", ")">>
  ELSE IF k < Len(stack) /\ TypeOf(stack[k].field) = "repeat"
       THEN stack[k].field.name \o <<"(", "'">>
            \o heap[doc[stack[k].inst].row][IdKey].v \o <<"'", ")">>
       ELSE stack[k].field.name

\* the open element is a repeat that is a child of the schema position of
\* the walker
OpensKnownRepeat ==
  /\ Len(docStack') = Len(docStack) + 1
  /\ ~InUnknown
  /\ ~InCollapsed
  /\ ptr(docStack').field # NULL
  /\ TypeOf(ptr(docStack').field) = "repeat"

\* C17: every open of a repeat that is a child of the walker's schema
\* position, whatever its branch state, writes on the data cursor, the row
\* the element lies in, the key <resolved name>@odata.navigationLink; its
\* value is the steps of the ancestry joined by '/': Submissions('<instanceId>')
\* first, name('<__id of the row of that instance>') for every enclosing
\* repeat instance, the bare name for every structure, and the bare name of
\* the repeat that opens last.
C17_NavigationLink ==
  [][ OpensKnownRepeat =>
        LET name == ptr(docStack').field.name
            key == ResolvedName(docStack, name) \o NavigationLinkSuffix
            row == OwnerRow(docStack)
        IN /\ ptr(dataStack) = Ref(row)
           /\ key \in DOMAIN heap'[row]
           /\ heap'[row][key]
                = Str(Join([k \in 1..Len(docStack') |-> LinkStep(docStack', k)], <<"/">>)) ]_vars

\* a row of the repeat a has the link of the repeat c of its structure g:
\* Submissions('u1')/a('<__id of the row>')/g/c under the key g__c@odata.navigationLink
C17_Witness ==
  \E id \in (heapBase + 2)..Len(heap) :
    LET key == <<"g", "_", "_", "c">> \o NavigationLinkSuffix
    IN /\ key \in DOMAIN heap[id]
       /\ heap[id][key]
            = Str(SubmissionsName \o <<"(", "'", "u", "1", "'", ")", "/", "a", "(", "'">>
                  \o heap[id][IdKey].v \o <<"'", ")", "/", "g", "/", "c">>)

\* the schema position of the walker is a named scalar field and its
\* branch state is Inside
TextWritable ==
  /\ docStack # <<>>
  /\ ~InUnknown
  /\ ~InCollapsed
  /\ ptr(fieldStack) # NULL
  /\ "name" \in DOMAIN ptr(docStack).field
  /\ TypeOf(ptr(docStack).field) \notin {"structure", "repeat", "undefined"}
  /\ getBranchState(PathStack(ptr(docStack).path), table) = BranchInside

\* C18: a text event changes the data tree only when the schema position is
\* non-null and named, its type is scalar and the branch state is Inside; at
\* a branch state Outside or At, and at a structure, a repeat or an empty
\* frame, a text event leaves the data tree unchanged; no text event
\* changes the result.
C18_TextWritesInsideScalarOnly ==
  [][ (docStack' = docStack /\ droppedWrapper' = droppedWrapper) =>
        /\ result' = result
        /\ ~TextWritable => heap' = heap ]_vars

\* the geopoint of the structure g has been written in the root row and the
\* element that is open is the structure
C18_Witness ==
  /\ table = SubmissionsName
  /\ <<"g", "_", "_", "p">> \in DOMAIN heap[heapBase + 1]
  /\ docStack # <<>>
  /\ TypeOf(ptr(docStack).field) = "structure"
  /\ ptr(fieldStack) # NULL

\* C19: a text event that writes a scalar field writes it into the row that
\* owns the field, the bag of the nearest enclosing repeat instance or the
\* root row, and into no other object, under the names of the structures
\* opened between that row and the field followed by the field name, joined
\* by '__' (the bare name when there is no such structure): no structure
\* that encloses the owning repeat is part of the key.
C19_NamespacedKey ==
  [][ (docStack' = docStack /\ droppedWrapper' = droppedWrapper /\ heap' # heap) =>
        LET row == OwnerRow(docStack)
            key == ResolvedName(Pop(docStack), ptr(docStack).field.name)
        IN /\ ptr(dataStack) = Ref(row)
           /\ key \in DOMAIN heap'[row]
           /\ heap' = [heap EXCEPT ![row] = Put(@, key, heap'[row][key])] ]_vars

\* a row of the repeat r of the structure g holds the field t of its
\* structure k under the key k__t and has no key that begins with g
C19_Witness ==
  /\ table = TablePath(<< <<"g">>, <<"r">> >>)
  /\ \E j \in 1..Len(result) :
       /\ <<"k", "_", "_", "t">> \in DOMAIN heap[result[j].id]
       /\ \A key \in DOMAIN heap[result[j].id] : ~StartsWith(key, <<"g">>)

\* C20: the iteration index of every open expanded repeat instance is the
\* number of earlier instances of the same repeat field, the one at the same
\* schema path, in the same enclosing row: 0 for the first; instances of
\* another repeat field of that row, one of the same name in another
\* structure included, do not count.
C20_IterationCountsOwnField ==
  \A k \in 2..Len(docStack) :
    (/\ docStack[k].field # NULL
     /\ TypeOf(docStack[k].field) = "repeat"
     /\ docStack[k].inst # docStack[k - 1].inst
     /\ doc[docStack[k].inst].row # 0) =>
      iterationStack[k] = Num(doc[docStack[k].inst].position, 0)

\* C21: in every endpoint, no step of a request changes what the service has
\* stored (blobs, submissions, attachments, audit entries) unless the
\* authorization check of that request has succeeded before; so a request
\* whose check fails never writes.  The attachment POST breaks it: the blob
\* of the request is ensured by a promise that does not wait for the check.
C21_NoWriteBeforeAuthorization ==
  [][db' # db => request.authorized = "granted"]_vars


\* the attachment rows of the submission that hold the blob of a posted file
Upserted(d, files) ==
  \A n \in files \cap ExpectedNames :
    [instanceId |-> HttpInstanceId, name |-> n, blobId |-> BlobIds.file] \in d.attachments

\* C22: on POST /projects/:projectId/submission for an instanceId that has a
\* submission on the form, the step that compares the stored with the posted
\* xml rejects with xmlConflict and writes nothing when they differ in any
\* character, and upserts the posted files as attachments of the stored
\* version when they are equal; no step of such a request creates a
\* submission, and a request answered with xmlConflict has upserted no
\* attachment and logged no audit entry.
C22_ResubmissionConflict ==
  [][ /\ (request.endpoint = "openrosa" /\ request.left = "compare" /\ request'.left # "compare")
        => IF CurrentXml(db) # request.xml
           THEN request'.status = "xmlConflict" /\ request'.left = "done" /\ db' = db
           ELSE /\ request'.status = "pending"
                /\ Upserted(db', request.files)
                /\ db'.submissions = db.submissions
      /\ (request'.endpoint = "openrosa" /\ Extant(request'.before))
        => /\ db'.submissions = request'.before.submissions
           /\ request'.status = "xmlConflict"
                => /\ db'.attachments = request'.before.attachments
                   /\ db'.audits = request'.before.audits ]_vars

\* a resubmission with another xml and a file has been rejected, and the
\* attachment of the stored submission is still without a blob
C22_Witness ==
  /\ request.endpoint = "openrosa"
  /\ request.status = "xmlConflict"
  /\ request.files = {"f1"}
  /\ Len(request.xml) = Len(CurrentXml(db))
  /\ [instanceId |-> HttpInstanceId, name |-> "f1", blobId |-> "none"] \in db.attachments

\* a resubmission of the same xml with a file has been answered, and the file
\* is the attachment of the one stored submission
C22_WitnessEqual ==
  /\ request.endpoint = "openrosa"
  /\ request.status = "created"
  /\ Extant(request.before)
  /\ request.files = {"f1"}
  /\ Upserted(db, request.files)
  /\ Cardinality(db.submissions) = 1


\* C23: within one conversion no two rows of the result have the same __id,
\* the digest taken as injective: two distinct instances of the table for
\* which the walker made a row differ in the iteration of at least one step
\* of their ancestry, and so in the string that is hashed.
C23_DistinctIds ==
  /\ \A i, j \in 1..Len(result) : i # j => ResultIds[i] # ResultIds[j]
  /\ \A i, j \in TableInstances :
       (i # j /\ doc[i].row # 0 /\ doc[j].row # 0)
         => heap[doc[i].row][IdKey] # heap[doc[j].row][IdKey]

\* two rows of a nested table that are each the first of their parent
C23_Witness ==
  /\ Len(result) >= 2
  /\ \E i, j \in TableInstances :
       /\ i # j
       /\ doc[i].parent # doc[j].parent
       /\ doc[i].position = doc[j].position
       /\ doc[i].row # 0 /\ doc[j].row # 0
       /\ heap[doc[i].row][IdKey] # heap[doc[j].row][IdKey]

=============================================================================
